---- MODULE Spec2Model ----
(***************************************************************************)
(* A model of qba73/coffeeshop (src/coffeeshop.go): the in-memory product  *)
(* store (MemoryStore), the server construction (New, WithLatency,         *)
(* latencyFromEnv), the middleware chain and the four HTTP handlers, and   *)
(* the server lifecycle (ListenAndServe, Shutdown).                        *)
(*                                                                         *)
(* Strings the code inspects character by character (Product.Type, the     *)
(* duration strings) are sequences of one-character strings, so that       *)
(* strings.ToLower and time.ParseDuration are computed, not assumed.       *)
(* Durations are integers, in milliseconds.                                *)
(***************************************************************************)
EXTENDS Integers, Sequences, FiniteSets, TLC

VARIABLES
    Products,   \* MemoryStore.Products: the catalog, a map id -> Product
    mx,         \* MemoryStore.mx: the readers and the writer holding the lock
    last,       \* the most recent direct call of a MemoryStore method, and what it returned
    prev,       \* the call before it
    env,        \* the environment's COFFEESHOP_LATENCY: a duration string, or Unset
    opts,       \* the strings of the WithLatency options handed to New, in order
    newRet,     \* what New returned for them
    Latency,    \* Server.Latency, in milliseconds
    las,        \* the call of Server.ListenAndServe: idle, serving, or what it returned
    shutdown,   \* the call of Server.Shutdown: idle, waiting, or what it returned
    ctxDone,    \* whether the context handed to Shutdown is done
    now,        \* the time, in milliseconds
    req,        \* the requests: where each is in the middleware chain, and its response
    handled     \* the most recent call of a handler on its own, and its response

storeVars == <<Products, last, prev>>

configVars == <<env, opts, newRet>>

serverVars == <<Latency, las, shutdown, ctxDone, now, req>>

vars ==
    <<Products, mx, last, prev, env, opts, newRet, Latency, las, shutdown, ctxDone, now, req,
      handled>>

----------------------------------------------------------------------------
(* Bounds of the model *)

\* the largest number of entries of a catalog
MaxProducts == 2

\* the largest number of WithLatency options in one call of New
MaxOptions == 2

\* the number of requests sent to the server
MaxRequests == 2

----------------------------------------------------------------------------
(* Strings and products *)

\* the identifiers catalogs are keyed by; two of them coincide with the
\* static path segments of the routes /products/coffee and /products/tea
IDs == {"1", "coffee", "tea"}

\* unicode.ToLower on the letters the model's strings are made of
LowerRune(c) ==
    CASE c = "C" -> "c"
      [] c = "O" -> "o"
      [] c = "F" -> "f"
      [] c = "E" -> "e"
      [] c = "T" -> "t"
      [] c = "A" -> "a"
      [] OTHER -> c

\* strings.ToLower: every rune mapped to its lower case
ToLower(s) == [i \in 1..Len(s) |-> LowerRune(s[i])]

\* the literals "coffee" and "tea" the store compares against
CoffeeLit == <<"c", "o", "f", "f", "e", "e">>

TeaLit == <<"t", "e", "a">>

\* the values of Product.Type the catalogs of the model draw from:
\* "Coffee", "TEA" and "Te"
Types ==
    { <<"C", "o", "f", "f", "e", "e">>,
      <<"T", "E", "A">>,
      <<"T", "e">> }

\* Product: the fields the code branches on (the others are carried unread)
Product(id, type) == [ID |-> id, Type |-> type]

\* Product{}: the zero value
ZeroProduct == Product("", <<>>)

\* the catalogs a store is constructed with: as in the inventory, every
\* product is stored under its own ID
Catalogs ==
    UNION { {[k \in ks |-> Product(k, ty[k])] : ty \in [ks -> Types]} :
            ks \in {s \in SUBSET IDs : Cardinality(s) <= MaxProducts} }

\* a Go slice: its elements, and whether it is the nil slice
Slice(elems, isNil) == [elems |-> elems, isNil |-> isNil]

NilSlice == Slice(<<>>, TRUE)

\* append(s, p): never nil
Append1(s, p) == Slice(Append(s.elems, p), FALSE)

----------------------------------------------------------------------------
(* Configuration: latencyFromEnv, WithLatency, New *)

Digits == {"0", "1", "2"}

DigitValue(c) == CASE c = "0" -> 0 [] c = "1" -> 1 [] c = "2" -> 2

\* time.ParseDuration's unitMap, in milliseconds (0: not a unit); the units
\* below a millisecond are not in the alphabet of the model
UnitMs(u) ==
    CASE u = <<"m", "s">> -> 1
      [] u = <<"s">> -> 1000
      [] u = <<"m">> -> 60 * 1000
      [] u = <<"h">> -> 60 * 60 * 1000
      [] OTHER -> 0

\* the number of leading characters of s that are digits
LeadingDigits(s) ==
    CHOOSE n \in 0..Len(s) :
        /\ \A i \in 1..n : s[i] \in Digits
        /\ n = Len(s) \/ s[n + 1] \notin Digits

\* the number of leading characters of s that are not digits
LeadingLetters(s) ==
    CHOOSE n \in 0..Len(s) :
        /\ \A i \in 1..n : s[i] \notin Digits
        /\ n = Len(s) \/ s[n + 1] \in Digits

\* leadingInt: the value of the first n characters of s, all digits
RECURSIVE LeadingInt(_, _)
LeadingInt(s, n) ==
    IF n = 0 THEN 0 ELSE LeadingInt(s, n - 1) * 10 + DigitValue(s[n])

ParseError == [ok |-> FALSE, d |-> 0]

\* the loop of time.ParseDuration: s is a sequence of <digits><unit> terms
RECURSIVE ParseTerms(_)
ParseTerms(s) ==
    IF s = <<>> THEN [ok |-> TRUE, d |-> 0]
    ELSE LET nd == LeadingDigits(s)
             afterInt == SubSeq(s, nd + 1, Len(s))
             nu == LeadingLetters(afterInt)
             unit == SubSeq(afterInt, 1, nu)
             rest == ParseTerms(SubSeq(afterInt, nu + 1, Len(afterInt)))
         IN  IF nd = 0 THEN ParseError              \* no digits
             ELSE IF nu = 0 THEN ParseError         \* missing unit
             ELSE IF UnitMs(unit) = 0 THEN ParseError  \* unknown unit
             ELSE IF ~rest.ok THEN ParseError
             ELSE [ok |-> TRUE, d |-> LeadingInt(s, nd) * UnitMs(unit) + rest.d]

\* time.ParseDuration, in milliseconds: [-+]?(<digits><unit>)+, or "0"
ParseDuration(s) ==
    LET signed == s # <<>> /\ s[1] \in {"-", "+"}
        neg == s # <<>> /\ s[1] = "-"
        body == IF signed THEN Tail(s) ELSE s
        r == ParseTerms(body)
    IN  IF body = <<"0">> THEN [ok |-> TRUE, d |-> 0]
        ELSE IF body = <<>> THEN ParseError
        ELSE IF ~r.ok THEN ParseError
        ELSE [ok |-> TRUE, d |-> IF neg THEN 0 - r.d ELSE r.d]

\* the fallback New passes to latencyFromEnv: "100m"
Fallback == <<"1", "0", "0", "m">>

\* the duration strings the model hands to New, by the environment or by
\* WithLatency: "2s", "100ms", "0", "", "10" and "2x"
DurationStrings ==
    { <<"2", "s">>,
      <<"1", "0", "0", "m", "s">>,
      <<"0">>,
      <<>>,
      <<"1", "0">>,
      <<"2", "x">> }

\* os.LookupEnv: the variable's value, and whether it is set
EnvValue(value, isSet) == [value |-> value, isSet |-> isSet]

Unset == EnvValue(<<>>, FALSE)

\* latencyFromEnv(key, fallback), given what LookupEnv(key) returns
latencyFromEnv(e, fallback) ==
    IF e.isSet THEN ParseDuration(e.value) ELSE ParseDuration(fallback)

NotCalled == [called |-> FALSE, ok |-> FALSE, Latency |-> 0]

\* New returns nil and the error
NewFailed == [called |-> TRUE, ok |-> FALSE, Latency |-> 0]

\* the loop of New over its options, from option i on; WithLatency(l) parses
\* l and sets s.Latency, or returns the error
RECURSIVE ApplyOptions(_, _, _)
ApplyOptions(latency, options, i) ==
    IF i > Len(options) THEN [called |-> TRUE, ok |-> TRUE, Latency |-> latency]
    ELSE LET r == ParseDuration(options[i])
         IN  IF ~r.ok THEN NewFailed
             ELSE ApplyOptions(r.d, options, i + 1)

\* New with an environment value that does not parse replaced by the fallback
New_EnvFallsBack(e, options) ==
    LET l == latencyFromEnv(e, Fallback)
    IN  ApplyOptions(IF l.ok THEN l.d ELSE ParseDuration(Fallback).d, options, 1)

\* New(addr, store, options...): the server's Latency, or the error
New(e, options) ==
    LET l == latencyFromEnv(e, Fallback)
    IN  IF ~l.ok THEN NewFailed
        ELSE ApplyOptions(l.d, options, 1)

CallNew ==
    /\ ~newRet.called
    /\ newRet' = New(env, opts)
    /\ UNCHANGED <<mx, storeVars, env, opts, serverVars, handled>>

OptionLists == UNION {[1..n -> DurationStrings] : n \in 0..MaxOptions}

----------------------------------------------------------------------------
(* MemoryStore *)

\* sync.RWMutex: how many readers hold it, and whether a writer holds it
NewRWMutex == [readers |-> 0, writer |-> FALSE]

\* the lock taken as by ms.mx.Lock(): only while nobody holds it
CanRLock_Exclusive(m) == ~m.writer /\ m.readers = 0

\* ms.mx.RLock() returns only while no writer holds the lock, however many
\* readers hold it
CanRLock(m) == ~m.writer

RLock(m) == [m EXCEPT !.readers = m.readers + 1]

\* ms.mx.RUnlock(), deferred: runs on every return of the method
RUnlock(m) == [m EXCEPT !.readers = m.readers - 1]

\* a method of the store called and returned in one step: the lock taken for
\* reading, and released by the deferred RUnlock
StoreRead ==
    /\ CanRLock(mx)
    /\ mx' = RUnlock(RLock(mx))

\* the orders a range over a Go map may visit the keys in: every one
KeyOrders(ps) ==
    {o \in [1..Cardinality(DOMAIN ps) -> DOMAIN ps] :
        \A i, j \in DOMAIN o : i # j => o[i] # o[j]}

\* maps.Values with the slice made with a length instead of a capacity,
\* make([]V, len(m)): the values follow len(m) zero values
MapsValues_MakeLen(ps) ==
    {Slice([i \in 1..(2 * Cardinality(DOMAIN ps)) |->
              IF i <= Cardinality(DOMAIN ps) THEN ZeroProduct
              ELSE ps[o[i - Cardinality(DOMAIN ps)]]], FALSE) : o \in KeyOrders(ps)}

\* maps.Values(ms.Products): make([]V, 0, len(m)), then the values appended
\* in one of the iteration orders
MapsValues(ps) ==
    {Slice([i \in DOMAIN o |-> ps[o[i]]], FALSE) : o \in KeyOrders(ps)}

\* the comparison without strings.ToLower
IsCoffee_CaseSensitive(p) == p.Type = CoffeeLit

IsCoffee(p) == ToLower(p.Type) = CoffeeLit

IsTea(p) == ToLower(p.Type) = TeaLit

\* the loop of GetCoffee over vs, from index i on, with coffee the slice so far
RECURSIVE RangeCoffee(_, _, _)
RangeCoffee(coffee, vs, i) ==
    IF i > Len(vs) THEN coffee
    ELSE RangeCoffee(IF IsCoffee(vs[i]) THEN Append1(coffee, vs[i]) ELSE coffee, vs, i + 1)

\* the loop of GetTea over vs, from index i on, with tea the slice so far
RECURSIVE RangeTea(_, _, _)
RangeTea(tea, vs, i) ==
    IF i > Len(vs) THEN tea
    ELSE RangeTea(IF IsTea(vs[i]) THEN Append1(tea, vs[i]) ELSE tea, vs, i + 1)

\* MemoryStore.GetAll: what a call may return
GetAll(ps) == MapsValues(ps)

\* GetProduct without the check of ok: a missing key yields the zero product
\* and no error
GetProduct_IgnoreOk(ps, id) ==
    [prod |-> IF id \in DOMAIN ps THEN ps[id] ELSE ZeroProduct, err |-> "nil"]

\* MemoryStore.GetProduct
GetProduct(ps, id) ==
    IF id \in DOMAIN ps
    THEN [prod |-> ps[id], err |-> "nil"]
    ELSE [prod |-> ZeroProduct, err |-> "product not found"]

\* MemoryStore.GetCoffee: what a call may return
GetCoffee(ps) ==
    {RangeCoffee(NilSlice, vs.elems, 1) : vs \in MapsValues(ps)}

\* MemoryStore.GetTea: what a call may return
GetTea(ps) ==
    {RangeTea(NilSlice, vs.elems, 1) : vs \in MapsValues(ps)}

----------------------------------------------------------------------------
(* Direct calls of the store's methods *)

NoCall == [op |-> "none", arg |-> "", prod |-> ZeroProduct, list |-> NilSlice, err |-> "nil"]

Returned(op, arg, prod, list, err) ==
    /\ last' = [op |-> op, arg |-> arg, prod |-> prod, list |-> list, err |-> err]
    /\ prev' = last

CallGetAll ==
    /\ \E vs \in GetAll(Products) : Returned("GetAll", "", ZeroProduct, vs, "nil")
    /\ StoreRead
    /\ UNCHANGED <<Products, configVars, handled, serverVars>>

\* a GetProduct that takes the product out of the map as it returns it
CallGetProduct_Pop ==
    /\ \E id \in IDs :
         LET r == GetProduct(Products, id)
         IN  /\ Returned("GetProduct", id, r.prod, NilSlice, r.err)
             /\ Products' = [k \in DOMAIN Products \ {id} |-> Products[k]]
    /\ StoreRead
    /\ UNCHANGED <<configVars, handled, serverVars>>

CallGetProduct ==
    /\ \E id \in IDs :
         LET r == GetProduct(Products, id)
         IN  Returned("GetProduct", id, r.prod, NilSlice, r.err)
    /\ StoreRead
    /\ UNCHANGED <<Products, configVars, handled, serverVars>>

CallGetCoffee ==
    /\ \E vs \in GetCoffee(Products) : Returned("GetCoffee", "", ZeroProduct, vs, "nil")
    /\ StoreRead
    /\ UNCHANGED <<Products, configVars, handled, serverVars>>

CallGetTea ==
    /\ \E vs \in GetTea(Products) : Returned("GetTea", "", ZeroProduct, vs, "nil")
    /\ StoreRead
    /\ UNCHANGED <<Products, configVars, handled, serverVars>>

----------------------------------------------------------------------------
(* The response writer *)

StatusOK == 200

StatusNotFound == 404

StatusInternalServerError == 500

StatusGatewayTimeout == 504

ContentTypeJSON == "application/json; charset=utf-8"

ContentTypeText == "text/plain; charset=utf-8"

\* what is written to the body: a JSON array of products, the JSON null, a
\* JSON object of one product, or a line of text
Data(kind, items, text) == [kind |-> kind, items |-> items, text |-> text]

\* an http.ResponseWriter: the status sent (0: none yet), the Content-Type of
\* the header map, the Content-Type sent with the status, the body written,
\* whether the connection to the client is broken, so that writes fail, the
\* number of times a status was written to it (by WriteHeader, or by the
\* first Write), and whether a header was set after the status was sent
NewResponse ==
    [status |-> 0, header |-> "", sent |-> "", body |-> <<>>, broken |-> FALSE,
     statusWrites |-> 0, lateHeader |-> FALSE]

\* w.Header().Set("Content-Type", ct): once the status is sent the header
\* map is no longer sent
HeaderSet(w, ct) ==
    [w EXCEPT !.header = ct, !.lateHeader = w.lateHeader \/ w.status # 0]

\* w.WriteHeader(code): the first call sends the status and the headers as
\* they are then; a later call is superfluous and changes nothing sent
WriteHeader(w, code) ==
    IF w.status # 0 THEN [w EXCEPT !.statusWrites = w.statusWrites + 1]
    ELSE [w EXCEPT !.status = code, !.sent = w.header,
                   !.statusWrites = w.statusWrites + 1]

\* w.Write(data): calls WriteHeader(200) if no status was sent, then sends
\* the data; on a broken connection the data is not written and Write
\* returns an error
Write(w, data) ==
    LET h == IF w.status = 0 THEN WriteHeader(w, StatusOK) ELSE w
    IN  IF h.broken THEN h ELSE [h EXCEPT !.body = Append(h.body, data)]

WriteErr(w) == IF w.broken THEN "write error" ELSE "nil"

\* http.Error(w, msg, code): the message is written followed by a newline
HttpError(w, msg, code) ==
    Write(WriteHeader(HeaderSet(w, ContentTypeText), code), Data("text", <<>>, msg))

\* json.MarshalIndent(products, "", "  "): a nil slice encodes as null; the
\* encoding of strings cannot fail
MarshalProducts(products) ==
    [data |-> IF products.isNil THEN Data("null", <<>>, "")
              ELSE Data("array", products.elems, ""),
     err |-> "nil"]

\* json.MarshalIndent(product, "", "  ")
MarshalProduct(product) == [data |-> Data("object", <<product>>, ""), err |-> "nil"]

\* json.MarshalIndent returning no data and an error
MarshalFailed == [data |-> Data("none", <<>>, ""), err |-> "marshal error"]

----------------------------------------------------------------------------
(* The handlers: the response of each, given what the store returned *)

\* Server.GetProducts, after data, err := json.MarshalIndent(products, "", "  ")
\* has returned m
GetProductsHandler(w, m) ==
    IF m.err # "nil" THEN WriteHeader(w, StatusInternalServerError)
    ELSE IF WriteErr(w) # "nil"
         THEN HttpError(Write(w, m.data), "internal error", StatusInternalServerError)
         ELSE Write(w, m.data)

\* Server.GetProduct with the error of the store ignored
GetProductHandler_ErrIgnored(w, res, m) ==
    Write(w, m.data)

\* Server.GetProduct, after product, err := cs.Store.GetProduct(productID)
\* has returned res; m is what json.MarshalIndent(product, "", "  ") returns
GetProductHandler(w, res, m) ==
    IF res.err # "nil" THEN HttpError(w, "product not found", StatusNotFound)
    ELSE IF m.err # "nil"
         THEN HttpError(w, "internal error", StatusInternalServerError)
    ELSE IF WriteErr(w) # "nil"
         THEN HttpError(Write(w, m.data), "internal error", StatusInternalServerError)
         ELSE Write(w, m.data)

\* Server.GetCoffee without the check of len(products)
GetCoffeeHandler_NoLenCheck(w, products, m) ==
    Write(w, m.data)

\* Server.GetCoffee, after products := cs.Store.GetCoffee(); m is what
\* json.MarshalIndent(products, "", "  ") returns
GetCoffeeHandler(w, products, m) ==
    IF Len(products.elems) = 0
         THEN HttpError(w, "product not found", StatusNotFound)
    ELSE IF m.err # "nil"
         THEN HttpError(w, "internal error", StatusInternalServerError)
    ELSE IF WriteErr(w) # "nil"
         THEN HttpError(Write(w, m.data), "internal error", StatusInternalServerError)
         ELSE Write(w, m.data)

\* Server.GetTea, after products := cs.Store.GetTea(); m is what
\* json.MarshalIndent(products, "", "  ") returns
GetTeaHandler(w, products, m) ==
    IF Len(products.elems) = 0
         THEN HttpError(w, "product not found", StatusNotFound)
    ELSE IF m.err # "nil"
         THEN HttpError(w, "internal error", StatusInternalServerError)
    ELSE IF WriteErr(w) # "nil"
         THEN HttpError(Write(w, m.data), "internal error", StatusInternalServerError)
         ELSE Write(w, m.data)

\* the router's answer to a path no route matches: http.NotFound
NotFoundHandler(w) == HttpError(w, "404 page not found", StatusNotFound)

----------------------------------------------------------------------------
(* The router and the middleware chain *)

\* the paths of the GET requests of the model, as their segments: /products,
\* /products/<id> for every id, and /products/
Paths == {<<"products">>} \cup {<<"products", seg>> : seg \in IDs \cup {""}}

NoRoute == [handler |-> "NotFound", productID |-> ""]

\* the routes of ListenAndServe, as chi's router matches a path: a static
\* segment before a {parameter}, a parameter never empty
Route(path) ==
    IF path = <<"products">> THEN [handler |-> "GetProducts", productID |-> ""]
    ELSE IF Len(path) = 2 /\ path[1] = "products"
         THEN IF path[2] = "tea" THEN [handler |-> "GetTea", productID |-> ""]
              ELSE IF path[2] = "coffee" THEN [handler |-> "GetCoffee", productID |-> ""]
              ELSE IF path[2] # "" THEN [handler |-> "GetProduct", productID |-> path[2]]
              ELSE NoRoute
    ELSE NoRoute

\* middleware.Timeout(120*time.Second), in milliseconds
TimeoutMs == 120 * 1000

\* time.Sleep(d) without the sleep
SleepUntil_NoSleep(d) == now

\* time.Sleep(d), called at the time now: the earliest time it returns at
SleepUntil(d) == IF d > 0 THEN now + d ELSE now

\* the function middleware.Timeout defers: after the deadline it writes 504
TimeoutDefer(w, deadline) ==
    IF now >= deadline THEN WriteHeader(w, StatusGatewayTimeout) ELSE w

Requests == 1..MaxRequests

IdleRequest ==
    [pc |-> "idle", path |-> <<>>, start |-> 0, deadline |-> 0, wakeAt |-> 0,
     handledAt |-> 0, w |-> NewResponse]

\* the requests the server has accepted and not yet answered
InFlight == {r \in Requests : req[r].pc \in {"sleeping", "reading"}}

\* the server accepts request r and runs the chain up to the sleep of Delay:
\* Timeout sets the deadline, SetHeader the Content-Type
Accept(r) ==
    /\ las = "serving" /\ shutdown = "idle"
    /\ req[r].pc = "idle"
    /\ \A q \in Requests : q < r => req[q].pc # "idle"
    /\ \E path \in Paths :
         req' = [req EXCEPT ![r] =
                   [pc |-> "sleeping", path |-> path, start |-> now,
                    deadline |-> now + TimeoutMs, wakeAt |-> SleepUntil(Latency),
                    handledAt |-> 0, w |-> HeaderSet(NewResponse, ContentTypeJSON)]]
    /\ UNCHANGED <<mx, storeVars, configVars, handled, Latency, las, shutdown, ctxDone, now>>

\* request r is back from the sleep of Delay
Awake(r) == req[r].pc = "sleeping" /\ now >= req[r].wakeAt

\* request r, back from the sleep, is routed to a handler, which calls its
\* method of the store: the method takes the lock for reading
StoreRLock(r) ==
    /\ Awake(r)
    /\ Route(req[r].path).handler # "NotFound"
    /\ CanRLock(mx)
    /\ mx' = RLock(mx)
    /\ req' = [req EXCEPT ![r].pc = "reading"]
    /\ UNCHANGED <<storeVars, configVars, handled, Latency, las, shutdown, ctxDone, now>>

\* request r is routed to handler h, and as far as the handler's first step
\* after the lock: inside the store's method, or, with no route, awake
Ready(r, h) ==
    /\ Route(req[r].path).handler = h
    /\ IF h = "NotFound" THEN Awake(r) ELSE req[r].pc = "reading"

\* the handler of request r returns with the response w, and so does the chain
Done(r, w) ==
    req' = [req EXCEPT ![r].pc = "done", ![r].handledAt = now,
                       ![r].w = TimeoutDefer(w, req[r].deadline)]

\* the response writer of request r, its connection broken or not
Writer(r, broken) == [req[r].w EXCEPT !.broken = broken]

\* the store's method returns to the handler of request r, its deferred
\* RUnlock releasing the lock, and the handler writes the response
ServeGetProducts(r) ==
    /\ Ready(r, "GetProducts")
    /\ \E broken \in BOOLEAN, products \in GetAll(Products) :
         Done(r, GetProductsHandler(Writer(r, broken), MarshalProducts(products)))
    /\ mx' = RUnlock(mx)
    /\ UNCHANGED <<storeVars, configVars, handled, Latency, las, shutdown, ctxDone, now>>

ServeGetProduct(r) ==
    /\ Ready(r, "GetProduct")
    /\ \E broken \in BOOLEAN :
         LET res == GetProduct(Products, Route(req[r].path).productID)
         IN  Done(r, GetProductHandler(Writer(r, broken), res, MarshalProduct(res.prod)))
    /\ mx' = RUnlock(mx)
    /\ UNCHANGED <<storeVars, configVars, handled, Latency, las, shutdown, ctxDone, now>>

\* a GetCoffee handler that takes what it serves out of the store
ServeGetCoffee_Evict(r) ==
    /\ Ready(r, "GetCoffee")
    /\ \E broken \in BOOLEAN, products \in GetCoffee(Products) :
         /\ Done(r, GetCoffeeHandler(Writer(r, broken), products, MarshalProducts(products)))
         /\ Products' = [k \in {i \in DOMAIN Products : ~IsCoffee(Products[i])} |-> Products[k]]
    /\ mx' = RUnlock(mx)
    /\ UNCHANGED <<last, prev, configVars, handled, Latency, las, shutdown, ctxDone, now>>

ServeGetCoffee(r) ==
    /\ Ready(r, "GetCoffee")
    /\ \E broken \in BOOLEAN, products \in GetCoffee(Products) :
         Done(r, GetCoffeeHandler(Writer(r, broken), products, MarshalProducts(products)))
    /\ mx' = RUnlock(mx)
    /\ UNCHANGED <<storeVars, configVars, handled, Latency, las, shutdown, ctxDone, now>>

ServeGetTea(r) ==
    /\ Ready(r, "GetTea")
    /\ \E broken \in BOOLEAN, products \in GetTea(Products) :
         Done(r, GetTeaHandler(Writer(r, broken), products, MarshalProducts(products)))
    /\ mx' = RUnlock(mx)
    /\ UNCHANGED <<storeVars, configVars, handled, Latency, las, shutdown, ctxDone, now>>

ServeNotFound(r) ==
    /\ Ready(r, "NotFound")
    /\ \E broken \in BOOLEAN : Done(r, NotFoundHandler(Writer(r, broken)))
    /\ UNCHANGED <<mx, storeVars, configVars, handled, Latency, las, shutdown, ctxDone, now>>

\* time passes, up to the end of the sleep of a request
Advance ==
    /\ \E r \in InFlight :
         /\ req[r].wakeAt > now
         /\ now' = req[r].wakeAt
    /\ UNCHANGED <<mx, storeVars, configVars, handled, Latency, las, shutdown, ctxDone, req>>

----------------------------------------------------------------------------
(* The handlers called on their own, with every result their callees return *)

\* what json.MarshalIndent returns to a handler: the encoding m, or the error
\* the handler tests for
MarshalReturns(m) == {m, MarshalFailed}

\* the response writer as the middleware chain hands it to a handler, the
\* Content-Type set by SetHeader
ChainWriter(broken) ==
    [HeaderSet(NewResponse, ContentTypeJSON) EXCEPT !.broken = broken]

\* handler h has returned with the response w: the store had found nothing
\* (notFound), or the encoder had returned m
Handled(h, notFound, m, w) ==
    handled' = [handler |-> h, notFound |-> notFound,
                merr |-> IF notFound THEN "nil" ELSE m.err, w |-> w]

HandleGetProducts ==
    /\ \E broken \in BOOLEAN, products \in GetAll(Products) :
         \E m \in MarshalReturns(MarshalProducts(products)) :
            Handled("GetProducts", FALSE, m, GetProductsHandler(ChainWriter(broken), m))
    /\ StoreRead
    /\ UNCHANGED <<storeVars, configVars, serverVars>>

HandleGetProduct ==
    /\ \E broken \in BOOLEAN, id \in IDs :
         LET res == GetProduct(Products, id)
         IN  \E m \in MarshalReturns(MarshalProduct(res.prod)) :
                Handled("GetProduct", res.err # "nil", m,
                        GetProductHandler(ChainWriter(broken), res, m))
    /\ StoreRead
    /\ UNCHANGED <<storeVars, configVars, serverVars>>

HandleGetCoffee ==
    /\ \E broken \in BOOLEAN, products \in GetCoffee(Products) :
         \E m \in MarshalReturns(MarshalProducts(products)) :
            Handled("GetCoffee", Len(products.elems) = 0, m,
                    GetCoffeeHandler(ChainWriter(broken), products, m))
    /\ StoreRead
    /\ UNCHANGED <<storeVars, configVars, serverVars>>

HandleGetTea ==
    /\ \E broken \in BOOLEAN, products \in GetTea(Products) :
         \E m \in MarshalReturns(MarshalProducts(products)) :
            Handled("GetTea", Len(products.elems) = 0, m,
                    GetTeaHandler(ChainWriter(broken), products, m))
    /\ StoreRead
    /\ UNCHANGED <<storeVars, configVars, serverVars>>

----------------------------------------------------------------------------
(* The lifecycle of the server *)

\* Server.ListenAndServe: registers the routes and serves; after Shutdown
\* it returns http.ErrServerClosed at once
ListenAndServe ==
    /\ las = "idle"
    /\ las' = IF shutdown # "idle" THEN "ErrServerClosed" ELSE "serving"
    /\ UNCHANGED <<mx, storeVars, configVars, handled, Latency, shutdown, ctxDone, now, req>>

\* Server.ListenAndServe when the address cannot be listened on
ListenAndServeFails ==
    /\ las = "idle" /\ shutdown = "idle"
    /\ las' = "listen error"
    /\ UNCHANGED <<mx, storeVars, configVars, handled, Latency, shutdown, ctxDone, now, req>>

\* a Shutdown that returns without waiting for the requests in flight
ShutdownCall_NoWait ==
    /\ shutdown = "idle"
    /\ shutdown' = "nil"
    /\ UNCHANGED <<mx, storeVars, configVars, handled, Latency, las, ctxDone, now, req>>

\* Server.Shutdown(ctx) is called: the listener is closed, and the call
\* returns nil at once when no request is in flight
ShutdownCall ==
    /\ shutdown = "idle"
    /\ shutdown' = IF InFlight = {} THEN "nil" ELSE "waiting"
    /\ UNCHANGED <<mx, storeVars, configVars, handled, Latency, las, ctxDone, now, req>>

\* the serving loop finds the listener closed: ListenAndServe returns
ListenAndServeReturns ==
    /\ las = "serving" /\ shutdown # "idle"
    /\ las' = "ErrServerClosed"
    /\ UNCHANGED <<mx, storeVars, configVars, handled, Latency, shutdown, ctxDone, now, req>>

\* the waiting Shutdown polls and finds no request in flight
ShutdownReturns ==
    /\ shutdown = "waiting" /\ InFlight = {}
    /\ shutdown' = "nil"
    /\ UNCHANGED <<mx, storeVars, configVars, handled, Latency, las, ctxDone, now, req>>

\* the context of the caller of Shutdown expires or is cancelled
ContextDone ==
    /\ shutdown = "waiting" /\ ~ctxDone
    /\ ctxDone' = TRUE
    /\ UNCHANGED <<mx, storeVars, configVars, handled, Latency, las, shutdown, now, req>>

\* the waiting Shutdown finds its context done and returns ctx.Err()
ShutdownGivesUp ==
    /\ shutdown = "waiting" /\ ctxDone
    /\ shutdown' = "context error"
    /\ UNCHANGED <<mx, storeVars, configVars, handled, Latency, las, ctxDone, now, req>>

----------------------------------------------------------------------------
(* Specifications *)

\* no server: the store or New is used on its own
\* no handler was called on its own
NoHandlerCall ==
    [handler |-> "none", notFound |-> FALSE, merr |-> "nil", w |-> NewResponse]

ServerIdle ==
    /\ handled = NoHandlerCall
    /\ Latency = 0
    /\ las = "idle"
    /\ shutdown = "idle"
    /\ ctxDone = FALSE
    /\ now = 0
    /\ req = [r \in Requests |-> IdleRequest]

\* no configuration: the store is used on its own
ConfigIdle ==
    /\ env = Unset
    /\ opts = <<>>
    /\ newRet = NotCalled

StoreIdle ==
    /\ Products = <<>>
    /\ mx = NewRWMutex
    /\ last = [op |-> "none", arg |-> "", prod |-> ZeroProduct, list |-> NilSlice, err |-> "nil"]
    /\ prev = last

InitNew ==
    /\ env \in {Unset} \cup {EnvValue(v, TRUE) : v \in DurationStrings}
    /\ opts \in OptionLists
    /\ newRet = NotCalled
    /\ StoreIdle
    /\ ServerIdle

NextNew == CallNew

SpecNew == InitNew /\ [][NextNew]_vars

InitStore ==
    /\ Products \in Catalogs
    /\ mx = NewRWMutex
    /\ last = NoCall
    /\ prev = NoCall
    /\ ConfigIdle
    /\ ServerIdle

NextStore == CallGetAll \/ CallGetProduct \/ CallGetCoffee \/ CallGetTea

SpecStore == InitStore /\ [][NextStore]_vars

\* a store, and the handlers called on it
InitHandlers ==
    /\ Products \in Catalogs
    /\ mx = NewRWMutex
    /\ last = NoCall
    /\ prev = NoCall
    /\ ConfigIdle
    /\ ServerIdle

NextHandlers == HandleGetProducts \/ HandleGetProduct \/ HandleGetCoffee \/ HandleGetTea

SpecHandlers == InitHandlers /\ [][NextHandlers]_vars

\* the latencies of the servers the code constructs: New(addr, &store,
\* WithLatency("2s")) as in Run, and New(addr, &store), both with
\* COFFEESHOP_LATENCY not set
Latencies == {New(Unset, <<<<"2", "s">>>>).Latency, New(Unset, <<>>).Latency}

\* a server constructed by New over a store, ListenAndServe not yet called
Init ==
    /\ Products \in Catalogs
    /\ mx = NewRWMutex
    /\ last = NoCall
    /\ prev = NoCall
    /\ ConfigIdle
    /\ Latency \in Latencies
    /\ las = "idle"
    /\ shutdown = "idle"
    /\ ctxDone = FALSE
    /\ now = 0
    /\ req = [r \in Requests |-> IdleRequest]
    /\ handled = NoHandlerCall

Next ==
    \/ ListenAndServe
    \/ ListenAndServeFails
    \/ ListenAndServeReturns
    \/ ShutdownCall
    \/ ShutdownReturns
    \/ ContextDone
    \/ ShutdownGivesUp
    \/ Advance
    \/ \E r \in Requests :
         \/ Accept(r)
         \/ StoreRLock(r)
         \/ ServeGetProducts(r)
         \/ ServeGetProduct(r)
         \/ ServeGetCoffee(r)
         \/ ServeGetTea(r)
         \/ ServeNotFound(r)

Spec == Init /\ [][Next]_vars

----------------------------------------------------------------------------
(* Properties of the store *)

Range(seq) == {seq[i] : i \in DOMAIN seq}

Count(seq, x) == Cardinality({i \in DOMAIN seq : seq[i] = x})

\* the products of the catalog
Stored == {Products[k] : k \in DOMAIN Products}

SamePermutation(a, b) ==
    /\ Len(a) = Len(b)
    /\ \A x \in Range(a) \cup Range(b) : Count(a, x) = Count(b, x)

UpperRune(c) ==
    CASE c = "c" -> "C"
      [] c = "o" -> "O"
      [] c = "f" -> "F"
      [] c = "e" -> "E"
      [] c = "t" -> "T"
      [] c = "a" -> "A"
      [] OTHER -> c

\* s equals the lower-case literal lit when letter case is ignored
EqualIgnoringCase(s, lit) ==
    /\ Len(s) = Len(lit)
    /\ \A i \in 1..Len(s) : s[i] \in {lit[i], UpperRune(lit[i])}

\* C1: GetProduct(k) returns, without error, the product stored under k
\* when k is a key of the catalog, and the zero product with the error
\* "product not found" when k is not a key.
C1_GetProductByKey ==
    last.op = "GetProduct" =>
        /\ last.arg \in DOMAIN Products =>
             /\ last.err = "nil"
             /\ last.prod = Products[last.arg]
        /\ last.arg \notin DOMAIN Products =>
             /\ last.err = "product not found"
             /\ last.prod = ZeroProduct

\* a lookup that found its product, followed by one that did not
C1_Witness ==
    /\ prev.op = "GetProduct" /\ prev.arg \in DOMAIN Products
    /\ prev.prod = Products[prev.arg]
    /\ last.op = "GetProduct" /\ last.arg \notin DOMAIN Products
    /\ last.err # "nil"

\* C2: GetAll() succeeds and returns every product of the catalog exactly
\* once and nothing else, in some order: as a set the result is the set of
\* stored products, its length is the number of keys, and for the empty
\* catalog it is the empty sequence.
C2_GetAllComplete ==
    last.op = "GetAll" =>
        /\ last.err = "nil"
        /\ Range(last.list.elems) = Stored
        /\ Len(last.list.elems) = Cardinality(DOMAIN Products)
        /\ \A k \in DOMAIN Products : Count(last.list.elems, Products[k]) = 1
        /\ DOMAIN Products = {} => last.list.elems = <<>>

\* GetAll has returned the two products of a catalog of two
C2_Witness ==
    /\ last.op = "GetAll"
    /\ Cardinality(DOMAIN Products) = 2
    /\ Len(last.list.elems) = 2

CoffeeStored == {p \in Stored : EqualIgnoringCase(p.Type, CoffeeLit)}

TeaStored == {p \in Stored : EqualIgnoringCase(p.Type, TeaLit)}

\* C3: GetCoffee() returns exactly the products whose Type is "coffee"
\* ignoring letter case and GetTea() exactly those whose Type is "tea"
\* ignoring letter case, each once; the two results share no product, a
\* product of neither type is in neither, and an empty match is an empty
\* result without error.
C3_TypeFilters ==
    /\ \A c \in {prev, last} :
         /\ c.op = "GetCoffee" =>
              /\ c.err = "nil"
              /\ Range(c.list.elems) = CoffeeStored
              /\ Len(c.list.elems) = Cardinality(CoffeeStored)
         /\ c.op = "GetTea" =>
              /\ c.err = "nil"
              /\ Range(c.list.elems) = TeaStored
              /\ Len(c.list.elems) = Cardinality(TeaStored)
         /\ c.op \in {"GetCoffee", "GetTea"} =>
              \A p \in Stored \ (CoffeeStored \cup TeaStored) :
                  p \notin Range(c.list.elems)
    /\ \A c, t \in {prev, last} :
         c.op = "GetCoffee" /\ t.op = "GetTea" =>
             Range(c.list.elems) \cap Range(t.list.elems) = {}

\* GetCoffee and then GetTea on a catalog that holds a product of neither
\* type: one of the two finds a product, the other finds none
C3_Witness ==
    /\ prev.op = "GetCoffee" /\ last.op = "GetTea"
    /\ Stored \ (CoffeeStored \cup TeaStored) # {}
    /\ Len(prev.list.elems) + Len(last.list.elems) = 1

\* the same method called twice in a row with the same argument
SameCall == prev.op = last.op /\ prev.arg = last.arg

\* C9 as stated: repeated GetAll() calls, and repeated GetProduct(id) calls
\* for the same id, return identical results.
C9_IdenticalResults ==
    SameCall /\ last.op \in {"GetAll", "GetProduct"} => prev = last

\* C9 as amended: repeated GetProduct(id) calls for the same id return
\* identical results; repeated GetAll() calls return the same products, each
\* as often, in an order that may differ from call to call.
C9_SameUpToOrder ==
    /\ SameCall /\ last.op = "GetProduct" => prev = last
    /\ SameCall /\ last.op = "GetAll" =>
         /\ prev.err = last.err
         /\ SamePermutation(prev.list.elems, last.list.elems)

\* two GetAll() calls in a row that returned the products in different orders
C9_Witness ==
    /\ SameCall /\ last.op = "GetAll"
    /\ prev.list.elems # last.list.elems

----------------------------------------------------------------------------
(* Properties of the configuration *)

\* what the duration strings of the model mean, in milliseconds, written
\* out by hand: "2s", "100ms", "0" and "100m"; the others are not durations
Milliseconds ==
    (<<"2", "s">> :> 2000) @@ (<<"1", "0", "0", "m", "s">> :> 100) @@
    (<<"0">> :> 0) @@ (<<"1", "0", "0", "m">> :> 6000000)

ValidDuration(s) == s \in DOMAIN Milliseconds

\* the duration strings supplied to New
Supplied == (IF env.isSet THEN {env.value} ELSE {}) \cup Range(opts)

\* C7: an invalid duration string supplied through WithLatency or through
\* COFFEESHOP_LATENCY makes New return an error and no server; when every
\* supplied string is valid, New succeeds and the Latency is that of the
\* (last) explicit option if one was given, else that of the environment's
\* value, else that of the fallback.
C7_InvalidConfigFailsNew ==
    newRet.called =>
        /\ (\E s \in Supplied : ~ValidDuration(s)) => ~newRet.ok
        /\ (\A s \in Supplied : ValidDuration(s)) =>
             /\ newRet.ok
             /\ newRet.Latency =
                  IF opts # <<>> THEN Milliseconds[opts[Len(opts)]]
                  ELSE IF env.isSet THEN Milliseconds[env.value]
                  ELSE Milliseconds[Fallback]

\* New has succeeded with a valid environment value overridden by an option
C7_Witness ==
    /\ newRet.called /\ newRet.ok
    /\ env.isSet /\ opts # <<>>
    /\ newRet.Latency # Milliseconds[env.value]

----------------------------------------------------------------------------
(* Properties of the server *)

\* the requests the server has answered
Answered == {r \in Requests : req[r].pc = "done"}

\* the requests for /products/<k>
ForProduct(r) == Len(req[r].path) = 2 /\ req[r].path[1] = "products"

ProductObject(p) == <<Data("object", <<p>>, "")>>

ProductNotFound == <<Data("text", <<>>, "product not found")>>

\* the response w is the status 200 with the product p, as JSON
IsProduct(w, p) ==
    /\ w.status = StatusOK
    /\ w.sent = ContentTypeJSON
    /\ ~w.broken => w.body = ProductObject(p)

\* the response w is the status 404 with the text "product not found"
IsNotFound(w) ==
    /\ w.status = StatusNotFound
    /\ w.sent = ContentTypeText
    /\ ~w.broken => w.body = ProductNotFound

\* the response w is the status 200 with a JSON array of the products of the
\* set ps, each once, in some order
IsArrayOf(w, ps) ==
    /\ w.status = StatusOK
    /\ w.sent = ContentTypeJSON
    /\ ~w.broken =>
         /\ Len(w.body) = 1
         /\ w.body[1].kind = "array"
         /\ Range(w.body[1].items) = ps
         /\ Len(w.body[1].items) = Cardinality(ps)

\* the response w is what GetProduct(k) returns: the product under key k,
\* or not found
FromGetProduct(w, k) ==
    IF k \in DOMAIN Products THEN IsProduct(w, Products[k]) ELSE IsNotFound(w)

\* the response w is that of a type-filtered endpoint whose filtered result
\* is the set ps: 404 exactly when ps is empty, else 200 and the array
FromFilter(w, ps) ==
    /\ w.status = StatusNotFound <=> ps = {}
    /\ IF ps = {} THEN IsNotFound(w) ELSE IsArrayOf(w, ps)

\* C4 as stated: for every identifier k, a GET of /products/k is answered
\* from GetProduct(k): 200 with the product under key k when k is a key of
\* the catalog, 404 with the text "product not found" when it is not;
\* the identifiers "coffee" and "tea" included.
C4_EveryIdFromGetProduct ==
    \A r \in Answered :
        ForProduct(r) /\ req[r].path[2] \in IDs =>
            FromGetProduct(req[r].w, req[r].path[2])

\* C4 as amended: for every identifier k other than "coffee" and "tea", a
\* GET of /products/k is answered from GetProduct(k); a GET of
\* /products/coffee or /products/tea is answered by the GetCoffee or GetTea
\* handler, whatever the catalog holds under the keys "coffee" and "tea".
C4_GetProductUnlessStaticRoute ==
    \A r \in Answered :
        ForProduct(r) /\ req[r].path[2] \in IDs =>
            LET k == req[r].path[2]
            IN  /\ k \notin {"coffee", "tea"} => FromGetProduct(req[r].w, k)
                /\ k = "coffee" => FromFilter(req[r].w, CoffeeStored)
                /\ k = "tea" => FromFilter(req[r].w, TeaStored)

\* /products/1 was answered with the product under key "1", and
\* /products/tea with 404 although the catalog has the key "tea"
C4_Witness ==
    \E r, q \in Answered :
        /\ req[r].path = <<"products", "1">> /\ "1" \in DOMAIN Products
        /\ req[r].w.status = StatusOK /\ req[r].w.body = ProductObject(Products["1"])
        /\ req[q].path = <<"products", "tea">> /\ "tea" \in DOMAIN Products
        /\ req[q].w.status = StatusNotFound

\* C5: GET /products never answers with a 4xx status and answers 200 with
\* an empty JSON array when the catalog is empty; GET /products/coffee and
\* GET /products/tea answer 404 exactly when their filtered result is empty
\* and 200 with the array otherwise.
C5_EmptyResultsAsymmetric ==
    \A r \in Answered :
        /\ req[r].path = <<"products">> =>
             /\ req[r].w.status = StatusOK
             /\ IsArrayOf(req[r].w, Stored)
             /\ DOMAIN Products = {} /\ ~req[r].w.broken =>
                  req[r].w.body = <<Data("array", <<>>, "")>>
        /\ req[r].path = <<"products", "coffee">> => FromFilter(req[r].w, CoffeeStored)
        /\ req[r].path = <<"products", "tea">> => FromFilter(req[r].w, TeaStored)

\* on the empty catalog /products was answered with 200 and the empty
\* array, and /products/coffee with 404
C5_Witness ==
    \E r, q \in Answered :
        /\ DOMAIN Products = {}
        /\ req[r].path = <<"products">>
        /\ req[r].w.status = StatusOK
        /\ req[r].w.body = <<Data("array", <<>>, "")>>
        /\ req[q].path = <<"products", "coffee">>
        /\ req[q].w.status = StatusNotFound

\* C6: every request, on every route, is stalled for the configured
\* latency before its handler runs: while it sleeps nothing of the response
\* is written, its handler runs no earlier than the latency after the
\* request came in, and the delay is the server's Latency for every request.
C6_DelayBeforeHandler ==
    \A r \in Requests :
        /\ req[r].pc # "idle" => req[r].wakeAt - req[r].start = Latency
        /\ req[r].pc = "sleeping" => req[r].w.status = 0 /\ req[r].w.body = <<>>
        /\ req[r].pc = "done" => req[r].handledAt - req[r].start >= Latency

\* one request was answered just when its delay was over, while a later
\* request is still inside its delay
C6_Witness ==
    \E r, q \in Requests :
        /\ Latency > 0
        /\ req[r].pc = "done" /\ req[r].handledAt = req[r].start + Latency
        /\ req[q].pc = "sleeping" /\ now < req[q].wakeAt

\* C8: no store operation and no HTTP request, failing ones included,
\* changes the catalog.
C8_CatalogUnchanged == [][Products' = Products]_vars

\* all four store methods have run on one catalog: two requests, one
\* answered 200 and one 404, after which the catalog still has its products
C8_Witness ==
    \E r, q \in Answered :
        /\ req[r].w.status = StatusOK /\ req[r].path = <<"products", "coffee">>
        /\ req[q].w.status = StatusNotFound /\ req[q].path = <<"products", "1">>
        /\ Cardinality(DOMAIN Products) = 2

\* the handler of request r can take its next step
CanServe(r) ==
    \/ ENABLED StoreRLock(r)
    \/ ENABLED ServeGetProducts(r)
    \/ ENABLED ServeGetProduct(r)
    \/ ENABLED ServeGetCoffee(r)
    \/ ENABLED ServeGetTea(r)
    \/ ENABLED ServeNotFound(r)

\* what holds of every state once Shutdown is involved: it has returned nil
\* only with no request in flight, and an error only with its context done;
\* a request in flight whose delay is over can still be answered; and
\* ListenAndServe, if still serving, can return
ShutdownState ==
    /\ shutdown = "nil" => InFlight = {}
    /\ shutdown = "context error" => ctxDone
    /\ shutdown # "idle" =>
         /\ \A r \in InFlight : now >= req[r].wakeAt => CanServe(r)
         /\ las = "serving" => ENABLED ListenAndServeReturns

\* what holds of every step: after Shutdown is invoked no request is
\* accepted; a request in flight stays in flight until it is answered;
\* the call of Shutdown returns only from waiting or at once; and
\* ListenAndServe, having served, returns only after Shutdown is invoked,
\* and returns http.ErrServerClosed
ShutdownStep ==
    /\ shutdown # "idle" =>
         \A r \in Requests : req[r].pc = "idle" => req'[r].pc = "idle"
    /\ \A r \in InFlight :
         /\ req'[r].pc \in {"sleeping", "reading", "done"}
         /\ req'[r].pc = "done" => req'[r].w.status # 0
    /\ shutdown' \in {"nil", "context error"} /\ shutdown' # shutdown =>
         \/ InFlight = {}
         \/ shutdown = "waiting" /\ ctxDone
    /\ shutdown # "idle" => shutdown' # "idle"
    /\ las = "serving" /\ las' # "serving" =>
         shutdown # "idle" /\ las' = "ErrServerClosed"
    /\ las = "idle" /\ shutdown # "idle" /\ las' # "idle" => las' = "ErrServerClosed"

\* C10: once Shutdown is invoked no new request is accepted, every request
\* in flight then (one inside its delay included) is allowed to complete,
\* Shutdown returns only when no request is in flight or its context is
\* done, and ListenAndServe returns http.ErrServerClosed.
C10_GracefulShutdown == [](ShutdownState) /\ [][ShutdownStep]_vars

\* Shutdown was invoked with a request inside its delay, waited, and
\* returned nil after the request was answered; ListenAndServe returned
C10_Witness ==
    /\ shutdown = "nil" /\ las = "ErrServerClosed"
    /\ \E r \in Answered :
         /\ req[r].w.status = StatusOK
         /\ req[r].handledAt > req[r].start
    /\ \E q \in Requests : req[q].pc = "idle"

\* C11: every request gets exactly one HTTP response: on every path through
\* the middleware chain and the handlers the status is written to the
\* response exactly once, never zero times and never a second time, and no
\* header is set once the status or a body byte is out.
C11_StatusWrittenOnce ==
    \A r \in Requests :
        /\ req[r].w.status = 0 => req[r].w.body = <<>>
        /\ req[r].pc = "done" =>
             /\ req[r].w.status # 0
             /\ req[r].w.statusWrites = 1
             /\ ~req[r].w.lateHeader

\* the handler called on its own ended in an error: the store found nothing,
\* or the encoder failed
ErrorOutcome ==
    handled.handler # "none" /\ (handled.notFound \/ handled.merr # "nil")

Overran(r) ==
    req[r].pc = "done" /\ req[r].handledAt - req[r].start > TimeoutMs

\* C13: a request that spends more than the 120 seconds of the timeout in
\* its delay and its handler is aborted: it is answered with the timeout
\* status and its handler writes no normal response, neither a 200 or 404
\* status nor a body.
C13_TimeoutAborts ==
    \A r \in Requests :
        Overran(r) =>
            /\ req[r].w.status = StatusGatewayTimeout
            /\ req[r].w.body = <<>>

\* the requests inside a method of the store
Reading == {r \in Requests : req[r].pc = "reading"}

\* the store's method can return to the handler of request r, and the
\* handler answer
CanReturn(r) ==
    \/ ENABLED ServeGetProducts(r)
    \/ ENABLED ServeGetProduct(r)
    \/ ENABLED ServeGetCoffee(r)
    \/ ENABLED ServeGetTea(r)

\* C14: concurrent requests never block one another: no writer ever holds
\* the lock; the lock is held for reading by exactly the requests that are
\* inside a method of the store, so by none that sleeps in its delay and by
\* none that was answered, found or not found; and whatever the other
\* requests do, a request that is awake can enter the store (or be answered
\* at once, without a route) and one inside the store can be answered.
C14_ReadsNeverBlock ==
    /\ ~mx.writer
    /\ mx.readers = Cardinality(Reading)
    /\ \A r \in Requests :
         /\ Awake(r) /\ Route(req[r].path).handler # "NotFound" => ENABLED StoreRLock(r)
         /\ Awake(r) /\ Route(req[r].path).handler = "NotFound" => ENABLED ServeNotFound(r)
         /\ r \in Reading => CanReturn(r)

\* two requests hold the lock at once, both inside a method of the store
C14_Witness ==
    \E r, q \in Reading : r # q /\ mx.readers = 2

====
